---- MODULE Spec2Model ----
(***************************************************************************)
(* Model of the agent evaluator (src/agent_evaluator.py): the keyword      *)
(* scorer evaluate_response, the case runner run_evaluation, the           *)
(* aggregator generate_summary, the publisher upload_to_s3 and the driver  *)
(* lambda_handler.                                                         *)
(*                                                                         *)
(* Python strings that are searched (response texts, keywords) are         *)
(* sequences of one-character strings; strings that are only compared or   *)
(* concatenated (ids, categories, bucket names, keys) are TLA+ strings.    *)
(* Scores are exact fractions <<numerator, denominator>> in lowest terms.  *)
(* The fields "timestamp" and "lambda_duration_ms" of a result and         *)
(* "timestamp" of a summary are written and never read by the program;     *)
(* they are left out of the records.                                       *)
(***************************************************************************)
EXTENDS Integers, Sequences, FiniteSets, TLC

(***************************************************************************)
(* Bounds of the model.                                                    *)
(***************************************************************************)
\* number of entries of TEST_CASES a run iterates over (a prefix of the table)
NumCases == 4
\* the clock stops advancing at MaxClock ticks
MaxClock == 2
\* clock ticks per second: the timestamp token has second precision
TicksPerSecond == 2
\* SpecScore: longest response text, longest keyword, most keywords
MaxTextLen == 3
MaxKeywordLen == 2
MaxKeywords == 2
\* SpecSummary: longest result sequence
MaxResults == 3

(***************************************************************************)
(* Python values.                                                          *)
(***************************************************************************)
\* marks a key that is left out of a dict
ABSENT == "<absent>"
\* Python's None
PyNone == "<None>"
\* a variable that has not been assigned yet
NoValue == [unset |-> TRUE]

\* Falsy as `x is None` would test it
Falsy_NoneOnly(v) == v = PyNone

\* truthiness of a str-or-None value, as `not x` tests it
Falsy(v) == v \in {PyNone, ""}

\* dict.get(key) and dict.get(key, default); a dict is a function on its keys
DictGet(d, key) == IF key \in DOMAIN d THEN d[key] ELSE PyNone
DictGetDefault(d, key, default) == IF key \in DOMAIN d THEN d[key] ELSE default

\* the dict that holds the entries of the record full whose value is not ABSENT
DictOf(full) == [k \in {k \in DOMAIN full : full[k] # ABSENT} |-> full[k]]

(***************************************************************************)
(* Fractions.                                                              *)
(***************************************************************************)
RECURSIVE GCD(_, _)
GCD(a, b) == IF b = 0 THEN a ELSE GCD(b, a % b)

\* n / d for d > 0, in lowest terms
Frac(n, d) == LET g == GCD(n, d) IN <<n \div g, d \div g>>
Zero == <<0, 1>>
RAdd(a, b) == Frac(a[1] * b[2] + b[1] * a[2], a[2] * b[2])
RDivInt(a, n) == Frac(a[1], a[2] * n)
RGeq(a, b) == a[1] * b[2] >= b[1] * a[2]

(***************************************************************************)
(* str.lower() and the substring test `k in t`.                            *)
(***************************************************************************)
UpperCase == <<"A","B","C","D","E","F","G","H","I","J","K","L","M",
               "N","O","P","Q","R","S","T","U","V","W","X","Y","Z">>
LowerCase == <<"a","b","c","d","e","f","g","h","i","j","k","l","m",
               "n","o","p","q","r","s","t","u","v","w","x","y","z">>

LowerChar(c) ==
    IF \E i \in DOMAIN UpperCase : UpperCase[i] = c
    THEN LowerCase[CHOOSE i \in DOMAIN UpperCase : UpperCase[i] = c]
    ELSE c

lower(s) == [i \in DOMAIN s |-> LowerChar(s[i])]

\* `k in t` for two strings
Contains(t, k) ==
    \E off \in 0..(Len(t) - Len(k)) : SubSeq(t, off + 1, off + Len(k)) = k

(***************************************************************************)
(* TEST_CASES, lines 10-59.                                                *)
(***************************************************************************)
TEST_CASES == <<
    [id |-> "compliance-1",
     query |-> "What are the most common compliance frameworks?",
     category |-> "compliance_frameworks",
     expected_keywords |-> << <<"P","C","I"," ","D","S","S">>,
                              <<"N","I","S","T">>,
                              <<"I","S","O">>,
                              <<"H","I","P","P","A">> >>],
    [id |-> "compliance-2",
     query |-> "Tell me about HIPAA compliance",
     category |-> "compliance_frameworks",
     expected_keywords |-> << <<"H","I","P","A","A">>,
                              <<"h","e","a","l","t","h">>,
                              <<"c","o","m","p","l","i","a","n","c","e">> >>],
    [id |-> "compliance-3",
     query |-> "What is PCI DSS?",
     category |-> "compliance_frameworks",
     expected_keywords |-> << <<"P","C","I">>,
                              <<"p","a","y","m","e","n","t">>,
                              <<"c","a","r","d">> >>],
    [id |-> "aws-docs-1",
     query |-> "What are AWS Lambda best practices?",
     category |-> "aws_documentation",
     expected_keywords |-> << <<"L","a","m","b","d","a">>,
                              <<"A","W","S">>,
                              <<"b","e","s","t"," ","p","r","a","c","t","i","c","e","s">> >>],
    [id |-> "aws-docs-2",
     query |-> "How do I secure an S3 bucket?",
     category |-> "aws_documentation",
     expected_keywords |-> << <<"S","3">>,
                              <<"s","e","c","u","r","i","t","y">>,
                              <<"b","u","c","k","e","t">> >>],
    [id |-> "security-news-1",
     query |-> "Show me the latest AWS security news",
     category |-> "security_news",
     expected_keywords |-> << <<"s","e","c","u","r","i","t","y">>,
                              <<"A","W","S">> >>],
    [id |-> "security-news-2",
     query |-> "Give me 5 recent security posts",
     category |-> "security_news",
     expected_keywords |-> << <<"s","e","c","u","r","i","t","y">> >>],
    [id |-> "knowledge-base-1",
     query |-> "What information do you have about SHIP?",
     category |-> "knowledge_base",
     expected_keywords |-> << <<"S","e","c","u","r","i","t","y"," ",
                                "H","e","a","l","t","h"," ",
                                "I","m","p","r","o","v","e","m","e","n","t"," ",
                                "P","r","o","g","r","a","m">> >>]
>>

\* the cases a run of the model iterates over: the first NumCases entries
Cases == SubSeq(TEST_CASES, 1, IF NumCases < Len(TEST_CASES) THEN NumCases ELSE Len(TEST_CASES))

(***************************************************************************)
(* evaluate_response, lines 62-69.                                         *)
(***************************************************************************)
\* CountMatches with the keyword compared as written: `keyword in response_lower`
RECURSIVE CountMatches_KeywordAsWritten(_, _)
CountMatches_KeywordAsWritten(response_lower, keywords) ==
    IF keywords = <<>> THEN 0
    ELSE (IF Contains(response_lower, Head(keywords)) THEN 1 ELSE 0)
         + CountMatches_KeywordAsWritten(response_lower, Tail(keywords))

\* sum(1 for keyword in expected_keywords if keyword.lower() in response_lower)
RECURSIVE CountMatches(_, _)
CountMatches(response_lower, keywords) ==
    IF keywords = <<>> THEN 0
    ELSE (IF Contains(response_lower, lower(Head(keywords))) THEN 1 ELSE 0)
         + CountMatches(response_lower, Tail(keywords))

evaluate_response(response_text, expected_keywords) ==
    LET response_lower == lower(response_text)
        matches == CountMatches(response_lower, expected_keywords)
    IN  IF expected_keywords # <<>>
        THEN Frac(matches, Len(expected_keywords))
        ELSE Zero

(***************************************************************************)
(* State.                                                                  *)
(***************************************************************************)
VARIABLES
    pc,           \* position of lambda_handler
    event,        \* the event lambda_handler was called with
    s3_prefix,    \* lambda_handler's local, line 249
    session_id,   \* lambda_handler's local, line 250
    case_idx,     \* run_evaluation: index in TEST_CASES of the loop's case
    response,     \* run_evaluation: outcome of the invocation of the loop's case
    results,      \* run_evaluation's result list
    summary,      \* lambda_handler's local, line 259
    timestamp,    \* upload_to_s3's local, line 195
    ret,          \* what lambda_handler returned
    invocations,  \* the calls of lambda_client.invoke so far, in order
    outcomes,     \* the outcome of each of those calls, in order
    s3_objects,   \* the completed calls of s3_client.put_object so far, in order
    clock,        \* datetime.utcnow(), in ticks
    score_args,   \* SpecScore: the arguments of evaluate_response
    score_ret     \* SpecScore: what evaluate_response returned

vars == <<pc, event, s3_prefix, session_id, case_idx, response, results, summary,
          timestamp, ret, invocations, outcomes, s3_objects, clock,
          score_args, score_ret>>

(***************************************************************************)
(* The environment: events, replies of the agent, the clock.               *)
(***************************************************************************)
\* events: each required parameter absent, None, empty or given; each
\* optional parameter absent or given
Events ==
    { DictOf([agent_lambda_name |-> a, s3_bucket |-> b, s3_prefix |-> p, session_id |-> s]) :
        a \in {ABSENT, PyNone, "", "agent-fn"},
        b \in {ABSENT, PyNone, "", "eval-bucket"},
        p \in {ABSENT, "nightly"},
        s \in {ABSENT, "sess-1"} }

\* response texts of the agent
AgentTexts ==
    { <<"P","C","I"," ","D","S","S",","," ","n","i","s","t",","," ",
        "P","a","y","m","e","n","t"," ","c","a","r","d">>,
      <<"h","i","p","a","a"," ","H","e","a","l","t","h",";"," ",
        "a","w","s"," ","l","a","m","b","d","a",";"," ","s","3"," ","C","a","r","d">> }

\* what lambda_client.invoke can do: raise; return with FunctionError set and
\* the error as payload; return a payload with a status other than 200;
\* return a payload with status 200 without or with a response text
InvokeOutcomes ==
    { [kind |-> "raise", detail |-> "Read timeout on endpoint URL"] }
    \cup { [kind |-> "return", FunctionError |-> "Unhandled",
            payload |-> [errorMessage |-> "KeyError"]] }
    \cup { [kind |-> "return", FunctionError |-> PyNone,
            payload |-> [statusCode |-> 500]] }
    \cup { [kind |-> "return", FunctionError |-> PyNone,
            payload |-> [statusCode |-> 200]] }
    \cup { [kind |-> "return", FunctionError |-> PyNone,
            payload |-> [statusCode |-> 200, response |-> t]] : t \in AgentTexts }

\* datetime.utcnow().strftime("%Y%m%d-%H%M%S"): the clock at second precision
strftime(t) == ToString(t \div TicksPerSecond)

(***************************************************************************)
(* run_evaluation, lines 72-152.                                           *)
(***************************************************************************)
\* the payload of lines 93-98 and the call of lines 101-105
Invocation(agent_lambda_name, case, sid) ==
    [FunctionName |-> agent_lambda_name,
     InvocationType |-> "RequestResponse",
     Payload |-> [prompt |-> case.query, user |-> [session_id |-> sid]]]

\* str() of the exception the try block of lines 91-136 ends with, or PyNone
\* when it ends without one
TryFault(resp) ==
    IF resp.kind = "raise" THEN resp.detail
    ELSE IF ~Falsy(resp.FunctionError)
         THEN "Lambda error: {'errorMessage': '" \o resp.payload.errorMessage \o "'}"
    ELSE IF "statusCode" \in DOMAIN resp.payload /\ resp.payload.statusCode = 200
         THEN PyNone
    ELSE "Agent returned status "
         \o (IF "statusCode" \in DOMAIN resp.payload
             THEN ToString(resp.payload.statusCode) ELSE "None")

\* StatusOf with `score > 0.5`
StatusOf_Strict(score) == IF score[1] * 2 > score[2] THEN "passed" ELSE "failed"

\* line 131
StatusOf(score) == IF RGeq(score, <<1, 2>>) THEN "passed" ELSE "failed"

\* the result of lines 124-134
ScoredResult(case, resp) ==
    LET response_text == DictGetDefault(resp.payload, "response", <<>>)
        score == evaluate_response(response_text, DictGetDefault(case, "expected_keywords", <<>>))
    IN  [test_id |-> case.id,
         category |-> case.category,
         query |-> case.query,
         expected_keywords |-> DictGetDefault(case, "expected_keywords", <<>>),
         response |-> response_text,
         score |-> score,
         status |-> StatusOf(score)]

\* the result of lines 140-149
ErrorResult(case, message) ==
    [test_id |-> case.id,
     category |-> case.category,
     query |-> case.query,
     expected_keywords |-> DictGetDefault(case, "expected_keywords", <<>>),
     response |-> <<"ERROR: ", message>>,
     score |-> Zero,
     status |-> "error"]

\* lines 83-105: the loop takes the next case and invokes the agent
Invoke ==
    /\ pc = "invoke"
    /\ \E o \in InvokeOutcomes :
        /\ response' = o
        /\ outcomes' = Append(outcomes, o)
    /\ invocations' = Append(invocations,
           Invocation(DictGet(event, "agent_lambda_name"), Cases[case_idx], session_id))
    /\ pc' = "record"
    /\ UNCHANGED <<event, s3_prefix, session_id, case_idx, results, summary, timestamp,
                   ret, s3_objects, clock, score_args, score_ret>>

\* Record without the handler of lines 138-150: a fault leaves run_evaluation
\* and reaches the handler of lambda_handler
Record_AbortOnFault ==
    /\ pc = "record"
    /\ LET case == Cases[case_idx]
           fault == TryFault(response)
       IN  IF fault = PyNone
           THEN /\ results' = Append(results, ScoredResult(case, response))
                /\ case_idx' = case_idx + 1
                /\ pc' = IF case_idx < Len(Cases) THEN "invoke" ELSE "summarize"
                /\ UNCHANGED ret
           ELSE /\ ret' = [statusCode |-> 500, body |-> [error |-> fault]]
                /\ pc' = "returned"
                /\ UNCHANGED <<results, case_idx>>
    /\ UNCHANGED <<event, s3_prefix, session_id, response, summary, timestamp,
                   invocations, outcomes, s3_objects, clock, score_args, score_ret>>

\* Record with a retry: after a fault the same case is invoked again
Record_RetryOnFault ==
    /\ pc = "record"
    /\ LET case == Cases[case_idx]
           fault == TryFault(response)
       IN  IF fault = PyNone
           THEN /\ results' = Append(results, ScoredResult(case, response))
                /\ case_idx' = case_idx + 1
                /\ pc' = IF case_idx < Len(Cases) THEN "invoke" ELSE "summarize"
           ELSE /\ pc' = "invoke"
                /\ UNCHANGED <<results, case_idx>>
    /\ UNCHANGED <<event, s3_prefix, session_id, response, summary, timestamp, ret,
                   invocations, outcomes, s3_objects, clock, score_args, score_ret>>

\* Record with the loop ending one case early
Record_EarlyExit ==
    /\ pc = "record"
    /\ LET case == Cases[case_idx]
           fault == TryFault(response)
       IN  results' = Append(results,
               IF fault = PyNone THEN ScoredResult(case, response)
               ELSE ErrorResult(case, fault))
    /\ case_idx' = case_idx + 1
    /\ pc' = IF case_idx < Len(Cases) - 1 THEN "invoke" ELSE "summarize"
    /\ UNCHANGED <<event, s3_prefix, session_id, response, summary, timestamp, ret,
                   invocations, outcomes, s3_objects, clock, score_args, score_ret>>

\* lines 107-150: the reply is parsed and scored, or the fault is caught; the
\* result is appended and the loop goes on, line 152 after the last case
Record ==
    /\ pc = "record"
    /\ LET case == Cases[case_idx]
           fault == TryFault(response)
       IN  results' = Append(results,
               IF fault = PyNone THEN ScoredResult(case, response)
               ELSE ErrorResult(case, fault))
    /\ case_idx' = case_idx + 1
    /\ pc' = IF case_idx < Len(Cases) THEN "invoke" ELSE "summarize"
    /\ UNCHANGED <<event, s3_prefix, session_id, response, summary, timestamp, ret,
                   invocations, outcomes, s3_objects, clock, score_args, score_ret>>

(***************************************************************************)
(* generate_summary, lines 155-188.                                        *)
(***************************************************************************)
\* sum(1 for r in results if r["status"] == status)
RECURSIVE CountStatus(_, _)
CountStatus(rs, status) ==
    IF rs = <<>> THEN 0
    ELSE (IF Head(rs).status = status THEN 1 ELSE 0) + CountStatus(Tail(rs), status)

\* sum(r["score"] for r in results)
RECURSIVE SumScores(_)
SumScores(rs) ==
    IF rs = <<>> THEN Zero ELSE RAdd(Head(rs).score, SumScores(Tail(rs)))

\* the loop of lines 167-174, from the dict categories on
RECURSIVE CategoryPass(_, _)
CategoryPass(rs, categories) ==
    IF rs = <<>> THEN categories
    ELSE LET result == Head(rs)
             cat == result.category
             entered == IF cat \in DOMAIN categories THEN categories
                        ELSE categories @@ (cat :> [total |-> 0, passed |-> 0, avg_score |-> Zero])
             counted == [entered EXCEPT
                            ![cat].total = @ + 1,
                            ![cat].passed = IF result.status = "passed" THEN @ + 1 ELSE @,
                            ![cat].avg_score = RAdd(@, result.score)]
         IN  CategoryPass(Tail(rs), counted)

\* the loop of lines 176-177
CategoryAverages(categories) ==
    [cat \in DOMAIN categories |->
        [categories[cat] EXCEPT !.avg_score = RDivInt(@, categories[cat].total)]]

\* generate_summary with the error results left out of the average's divisor
generate_summary_ErrorsNotAveraged(rs) ==
    LET total_tests == Len(rs)
        passed == CountStatus(rs, "passed")
        failed == CountStatus(rs, "failed")
        errors == CountStatus(rs, "error")
        avg_score == IF total_tests - errors > 0
                     THEN RDivInt(SumScores(rs), total_tests - errors) ELSE Zero
        categories == CategoryAverages(CategoryPass(rs, <<>>))
    IN  [total_tests |-> total_tests,
         passed |-> passed,
         failed |-> failed,
         errors |-> errors,
         pass_rate |-> IF total_tests > 0 THEN Frac(passed, total_tests) ELSE Zero,
         average_score |-> avg_score,
         categories |-> categories]

generate_summary(rs) ==
    LET total_tests == Len(rs)
        passed == CountStatus(rs, "passed")
        failed == CountStatus(rs, "failed")
        errors == CountStatus(rs, "error")
        avg_score == IF total_tests > 0 THEN RDivInt(SumScores(rs), total_tests) ELSE Zero
        categories == CategoryAverages(CategoryPass(rs, <<>>))
    IN  [total_tests |-> total_tests,
         passed |-> passed,
         failed |-> failed,
         errors |-> errors,
         pass_rate |-> IF total_tests > 0 THEN Frac(passed, total_tests) ELSE Zero,
         average_score |-> avg_score,
         categories |-> categories]

(***************************************************************************)
(* upload_to_s3, lines 191-218.                                            *)
(***************************************************************************)
\* summary_key with the clock read again for the second key
summary_key_ClockReread(prefix, ts) == prefix \o "/summary-" \o strftime(clock) \o ".json"

\* lines 198 and 207
results_key(prefix, ts) == prefix \o "/results-" \o ts \o ".json"
summary_key(prefix, ts) == prefix \o "/summary-" \o ts \o ".json"

\* lines 216-217
S3Uri(bucket_name, key) == "s3://" \o bucket_name \o "/" \o key

\* a completed put_object; Body is the value json.dumps serialises
PutObject(bucket_name, key, body) ==
    [Bucket |-> bucket_name, Key |-> key, Body |-> body, ContentType |-> "application/json"]

(***************************************************************************)
(* lambda_handler, lines 221-282.  The body of a returned response is the  *)
(* dict that json.dumps serialises.                                        *)
(***************************************************************************)
\* lines 238-241 and 244-247
MissingParameter(name) ==
    [statusCode |-> 400, body |-> [error |-> "Missing required parameter: " \o name]]

\* lines 275-282
RuntimeFault(message) ==
    [statusCode |-> 500, body |-> [error |-> message]]

\* lines 266-273
Success(sum, s3_info) ==
    [statusCode |-> 200,
     body |-> [message |-> "Evaluation completed successfully",
               summary |-> sum,
               s3_locations |-> s3_info]]

\* lines 233-255 and 80: the parameters are checked, the defaults are set and
\* run_evaluation starts with an empty result list
Entry ==
    /\ pc = "entry"
    /\ LET agent_lambda_name == DictGet(event, "agent_lambda_name")
           bucket_name == DictGet(event, "s3_bucket")
       IN  \/ /\ Falsy(agent_lambda_name)
              /\ ret' = MissingParameter("agent_lambda_name")
              /\ pc' = "returned"
              /\ UNCHANGED <<s3_prefix, session_id, case_idx, results>>
           \/ /\ ~Falsy(agent_lambda_name)
              /\ Falsy(bucket_name)
              /\ ret' = MissingParameter("s3_bucket")
              /\ pc' = "returned"
              /\ UNCHANGED <<s3_prefix, session_id, case_idx, results>>
           \/ /\ ~Falsy(agent_lambda_name)
              /\ ~Falsy(bucket_name)
              /\ s3_prefix' = DictGetDefault(event, "s3_prefix", "agent-evaluations")
              /\ session_id' = DictGetDefault(event, "session_id", "eval-" \o strftime(clock))
              /\ results' = <<>>
              /\ case_idx' = 1
              /\ pc' = IF Len(Cases) > 0 THEN "invoke" ELSE "summarize"
              /\ UNCHANGED ret
    /\ UNCHANGED <<event, response, summary, timestamp, invocations, outcomes,
                   s3_objects, clock, score_args, score_ret>>

\* line 259
Summarize ==
    /\ pc = "summarize"
    /\ summary' = generate_summary(results)
    /\ pc' = "upload"
    /\ UNCHANGED <<event, s3_prefix, session_id, case_idx, response, results, timestamp,
                   ret, invocations, outcomes, s3_objects, clock, score_args, score_ret>>

\* lines 263 and 195: upload_to_s3 reads the clock
UploadBegin ==
    /\ pc = "upload"
    /\ timestamp' = strftime(clock)
    /\ pc' = "put_results"
    /\ UNCHANGED <<event, s3_prefix, session_id, case_idx, response, results, summary,
                   ret, invocations, outcomes, s3_objects, clock, score_args, score_ret>>

\* PutResults with the fault of the first put_object ignored: upload_to_s3
\* goes on to the second
PutResults_FaultIgnored ==
    /\ pc = "put_results"
    /\ \/ s3_objects' = Append(s3_objects,
              PutObject(DictGet(event, "s3_bucket"), results_key(s3_prefix, timestamp), results))
       \/ UNCHANGED s3_objects
    /\ pc' = "put_summary"
    /\ UNCHANGED <<event, s3_prefix, session_id, case_idx, response, results, summary,
                   timestamp, ret, invocations, outcomes, clock, score_args, score_ret>>

\* lines 198-204: the results object is written, or put_object raises and
\* the handler of lines 275-282 returns
PutResults ==
    /\ pc = "put_results"
    /\ \/ /\ s3_objects' = Append(s3_objects,
                 PutObject(DictGet(event, "s3_bucket"), results_key(s3_prefix, timestamp), results))
          /\ pc' = "put_summary"
          /\ UNCHANGED ret
       \/ /\ ret' = RuntimeFault("put_object failed: results")
          /\ pc' = "returned"
          /\ UNCHANGED s3_objects
    /\ UNCHANGED <<event, s3_prefix, session_id, case_idx, response, results, summary,
                   timestamp, invocations, outcomes, clock, score_args, score_ret>>

\* PutSummary with the fault of the second put_object swallowed: the handler
\* returns the success response all the same
PutSummary_FaultSwallowed ==
    /\ pc = "put_summary"
    /\ LET bucket_name == DictGet(event, "s3_bucket")
           s3_info == [results_s3_uri |-> S3Uri(bucket_name, results_key(s3_prefix, timestamp)),
                       summary_s3_uri |-> S3Uri(bucket_name, summary_key(s3_prefix, timestamp))]
       IN  /\ \/ s3_objects' = Append(s3_objects,
                     PutObject(bucket_name, summary_key(s3_prefix, timestamp), summary))
              \/ UNCHANGED s3_objects
           /\ ret' = Success(summary, s3_info)
    /\ pc' = "returned"
    /\ UNCHANGED <<event, s3_prefix, session_id, case_idx, response, results, summary,
                   timestamp, invocations, outcomes, clock, score_args, score_ret>>

\* lines 207-218 and 266-273: the summary object is written and the handler
\* returns the summary and the two locations, or put_object raises and the
\* handler of lines 275-282 returns
PutSummary ==
    /\ pc = "put_summary"
    /\ LET bucket_name == DictGet(event, "s3_bucket")
           s3_info == [results_s3_uri |-> S3Uri(bucket_name, results_key(s3_prefix, timestamp)),
                       summary_s3_uri |-> S3Uri(bucket_name, summary_key(s3_prefix, timestamp))]
       IN  \/ /\ s3_objects' = Append(s3_objects,
                     PutObject(bucket_name, summary_key(s3_prefix, timestamp), summary))
              /\ ret' = Success(summary, s3_info)
           \/ /\ ret' = RuntimeFault("put_object failed: summary")
              /\ UNCHANGED s3_objects
    /\ pc' = "returned"
    /\ UNCHANGED <<event, s3_prefix, session_id, case_idx, response, results, summary,
                   timestamp, invocations, outcomes, clock, score_args, score_ret>>

\* time passes while upload_to_s3 runs
Tick ==
    /\ pc \in {"upload", "put_results", "put_summary"}
    /\ clock < MaxClock
    /\ clock' = clock + 1
    /\ UNCHANGED <<pc, event, s3_prefix, session_id, case_idx, response, results, summary,
                   timestamp, ret, invocations, outcomes, s3_objects, score_args, score_ret>>

(***************************************************************************)
(* One call of lambda_handler.                                             *)
(***************************************************************************)
Init ==
    /\ pc = "entry"
    /\ event \in Events
    /\ s3_prefix = PyNone
    /\ session_id = PyNone
    /\ case_idx = 0
    /\ response = NoValue
    /\ results = <<>>
    /\ summary = NoValue
    /\ timestamp = PyNone
    /\ ret = NoValue
    /\ invocations = <<>>
    /\ outcomes = <<>>
    /\ s3_objects = <<>>
    /\ clock = 0
    /\ score_args = NoValue
    /\ score_ret = NoValue

Next ==
    \/ Entry
    \/ Invoke
    \/ Record
    \/ Summarize
    \/ UploadBegin
    \/ PutResults
    \/ PutSummary
    \/ Tick

Spec == Init /\ [][Next]_vars

(***************************************************************************)
(* evaluate_response on its own: every text and keyword list within the    *)
(* bounds.                                                                 *)
(***************************************************************************)
\* the sequences over alphabet of length at most n
SeqsUpTo(alphabet, n) == UNION { [1..k -> alphabet] : k \in 0..n }

ScoreTexts == SeqsUpTo({"A", "a", "b"}, MaxTextLen)
ScoreKeywordLists == SeqsUpTo(SeqsUpTo({"A", "b"}, MaxKeywordLen), MaxKeywords)

ScoreInit ==
    /\ pc = "score"
    /\ score_args \in [response_text : ScoreTexts, expected_keywords : ScoreKeywordLists]
    /\ score_ret = NoValue
    /\ event = <<>>
    /\ s3_prefix = PyNone
    /\ session_id = PyNone
    /\ case_idx = 0
    /\ response = NoValue
    /\ results = <<>>
    /\ summary = NoValue
    /\ timestamp = PyNone
    /\ ret = NoValue
    /\ invocations = <<>>
    /\ outcomes = <<>>
    /\ s3_objects = <<>>
    /\ clock = 0

\* a call of evaluate_response, lines 62-69
Score ==
    /\ pc = "score"
    /\ score_ret' = evaluate_response(score_args.response_text, score_args.expected_keywords)
    /\ pc' = "scored"
    /\ UNCHANGED <<event, s3_prefix, session_id, case_idx, response, results, summary,
                   timestamp, ret, invocations, outcomes, s3_objects, clock, score_args>>

SpecScore == ScoreInit /\ [][Score]_vars

(***************************************************************************)
(* generate_summary on its own: every result list within the bounds.       *)
(***************************************************************************)
\* results as run_evaluation builds them: a status with a score it goes with
SummaryResults ==
    { [test_id |-> "case", category |-> c, score |-> p[1], status |-> p[2]] :
        c \in {"compliance_frameworks", "aws_documentation"},
        p \in { <<Zero, "error">>, <<Zero, "failed">>, <<Frac(1, 5), "failed">>,
                <<Frac(1, 2), "passed">>, <<Frac(1, 1), "passed">> } }

SummaryInit ==
    /\ pc = "summarize"
    /\ results \in SeqsUpTo(SummaryResults, MaxResults)
    /\ summary = NoValue
    /\ event = <<>>
    /\ s3_prefix = PyNone
    /\ session_id = PyNone
    /\ case_idx = 0
    /\ response = NoValue
    /\ timestamp = PyNone
    /\ ret = NoValue
    /\ invocations = <<>>
    /\ outcomes = <<>>
    /\ s3_objects = <<>>
    /\ clock = 0
    /\ score_args = NoValue
    /\ score_ret = NoValue

SpecSummary == SummaryInit /\ [][Summarize]_vars

(***************************************************************************)
(* Properties.                                                             *)
(***************************************************************************)
\* k occurs in t at some offset, character by character
OccursIn(k, t) ==
    \E off \in 0..(Len(t) - Len(k)) : \A j \in 1..Len(k) : t[off + j] = k[j]

\* f is a fraction in [0, 1]
IsUnitFraction(f) == f[2] > 0 /\ 0 <= f[1] /\ f[1] <= f[2]

\* the fraction f equals n / d, d > 0
FracIs(f, n, d) == f[2] > 0 /\ f[1] * d = n * f[2]

\* C3: evaluate_response returns (number of positions of the keyword list
\* whose lower-cased keyword is a substring of the lower-cased text) /
\* (number of keywords), a value in [0, 1]; for the empty list it returns 0.
C3_ScoreIsMatchedFraction ==
    pc = "scored" =>
        LET text == score_args.response_text
            keywords == score_args.expected_keywords
            matched == { i \in DOMAIN keywords : OccursIn(lower(keywords[i]), lower(text)) }
        IN  /\ IsUnitFraction(score_ret)
            /\ keywords = <<>> => score_ret = <<0, 1>>
            /\ keywords # <<>> => FracIs(score_ret, Cardinality(matched), Len(keywords))

\* C3 witness: a keyword listed twice, matching only up to case, counts twice
C3_Witness ==
    /\ pc = "scored"
    /\ score_args.response_text = <<"b", "a", "b">>
    /\ score_args.expected_keywords = << <<"A", "b">>, <<"A", "b">> >>
    /\ score_ret = <<1, 1>>

\* the product of the denominators of the scores of rs
RECURSIVE ProductOfDenominators(_)
ProductOfDenominators(rs) ==
    IF rs = <<>> THEN 1 ELSE Head(rs).score[2] * ProductOfDenominators(Tail(rs))

\* the sum of the scores of rs at the indices in idx, times the common denominator den
RECURSIVE ScaledScoreSum(_, _, _)
ScaledScoreSum(rs, idx, den) ==
    IF idx = {} THEN 0
    ELSE LET i == CHOOSE i \in idx : TRUE
         IN  rs[i].score[1] * (den \div rs[i].score[2]) + ScaledScoreSum(rs, idx \ {i}, den)

\* C5: generate_summary returns the length, the count of each status,
\* pass_rate = passed / total, average_score = sum of all scores / total
\* (error results included), and per category occurring its count, its
\* passed count and its sum of scores / its count; for the empty list all of
\* total_tests, pass_rate and average_score are 0 and categories is empty.
C5_SummaryIsAggregate ==
    pc = "upload" =>
        LET n == Len(results)
            with(status) == { i \in DOMAIN results : results[i].status = status }
            of(cat) == { i \in DOMAIN results : results[i].category = cat }
            den == ProductOfDenominators(results)
        IN  /\ summary.total_tests = n
            /\ summary.passed = Cardinality(with("passed"))
            /\ summary.failed = Cardinality(with("failed"))
            /\ summary.errors = Cardinality(with("error"))
            /\ n = 0 => /\ summary.pass_rate = <<0, 1>>
                        /\ summary.average_score = <<0, 1>>
                        /\ DOMAIN summary.categories = {}
            /\ n > 0 => /\ FracIs(summary.pass_rate, Cardinality(with("passed")), n)
                        /\ FracIs(summary.average_score,
                                  ScaledScoreSum(results, DOMAIN results, den), den * n)
            /\ DOMAIN summary.categories = { results[i].category : i \in DOMAIN results }
            /\ \A cat \in DOMAIN summary.categories :
                /\ summary.categories[cat].total = Cardinality(of(cat))
                /\ summary.categories[cat].passed = Cardinality(of(cat) \cap with("passed"))
                /\ FracIs(summary.categories[cat].avg_score,
                          ScaledScoreSum(results, of(cat), den), den * Cardinality(of(cat)))

\* C5 witness: one passed result of score 1 and one failed result of score
\* 1/5 in one category, an error result in another: the category's average
\* is 3/5 and the overall average 2/5
C5_Witness ==
    /\ pc = "upload"
    /\ Len(results) = 3
    /\ results[1].status = "passed" /\ results[1].score = <<1, 1>>
    /\ results[2].status = "failed" /\ results[2].score = <<1, 5>>
    /\ results[3].status = "error"
    /\ results[1].category = "compliance_frameworks"
    /\ results[2].category = "compliance_frameworks"
    /\ results[3].category = "aws_documentation"
    /\ summary.categories["compliance_frameworks"] = [total |-> 2, passed |-> 1, avg_score |-> <<3, 5>>]
    /\ summary.average_score = <<2, 5>>
    /\ summary.pass_rate = <<1, 3>>

\* the invocation with outcome o faulted: the call raised, FunctionError was
\* set, or the payload's statusCode was not 200
Faulted(o) ==
    \/ o.kind = "raise"
    \/ /\ o.kind = "return"
       /\ \/ o.FunctionError # PyNone
          \/ "statusCode" \notin DOMAIN o.payload
          \/ o.payload.statusCode # 200

\* the handler is past run_evaluation
RunnerDone ==
    \/ pc \in {"summarize", "upload", "put_results", "put_summary"}
    \/ pc = "returned" /\ ret.statusCode # 400

\* C1: whatever the outcomes of the invocations, run_evaluation returns one
\* result per case, in the order of the cases, each with the test_id and the
\* category of its case; a fault never aborts the run.
C1_OneResultPerCase ==
    /\ Len(results) <= Len(Cases)
    /\ \A k \in DOMAIN results :
        /\ results[k].test_id = Cases[k].id
        /\ results[k].category = Cases[k].category
    /\ RunnerDone => Len(results) = Len(Cases)

\* C1 witness: the run is over after a raised call, a FunctionError and a
\* non-200 status, and the case after them passed
C1_Witness ==
    /\ pc = "summarize"
    /\ outcomes[1].kind = "raise"
    /\ outcomes[2].kind = "return" /\ outcomes[2].FunctionError = "Unhandled"
    /\ outcomes[3].kind = "return" /\ outcomes[3].FunctionError = PyNone
    /\ outcomes[3].payload = [statusCode |-> 500]
    /\ results[Len(Cases)].status = "passed"
    /\ Len(results) = Len(Cases)

Lacks(ev, name) == name \notin DOMAIN ev \/ ev[name] = PyNone \/ ev[name] = ""

\* C4: when the event lacks agent_lambda_name or s3_bucket the handler
\* returns 400 with an error naming the missing parameter, agent_lambda_name
\* first, and the run invokes no agent and writes no object.
C4_MissingParameter ==
    (Lacks(event, "agent_lambda_name") \/ Lacks(event, "s3_bucket")) =>
        /\ pc \in {"entry", "returned"}
        /\ invocations = <<>>
        /\ s3_objects = <<>>
        /\ pc = "returned" =>
            /\ ret.statusCode = 400
            /\ ret.body = [error |-> "Missing required parameter: " \o
                  (IF Lacks(event, "agent_lambda_name") THEN "agent_lambda_name" ELSE "s3_bucket")]

\* C4 witness: the handler returned for an event with an empty
\* agent_lambda_name and no s3_bucket
C4_Witness ==
    /\ pc = "returned"
    /\ "agent_lambda_name" \in DOMAIN event /\ event.agent_lambda_name = ""
    /\ "s3_bucket" \notin DOMAIN event
    /\ ret.statusCode = 400
    /\ ret.body.error = "Missing required parameter: agent_lambda_name"

\* C6: with both required parameters the handler returns 200 or 500: 200,
\* with the summary and both locations in the body, exactly when the runner,
\* the aggregator and both writes completed; 500, with only the fault's
\* description in the body, when a fault escaped one of them.
C6_StructuredResponse ==
    (pc = "returned" /\ ~Lacks(event, "agent_lambda_name") /\ ~Lacks(event, "s3_bucket")) =>
        /\ ret.statusCode \in {200, 500}
        /\ ret.statusCode = 200 <=>
              (Len(results) = Len(Cases) /\ summary # NoValue /\ Len(s3_objects) = 2)
        /\ ret.statusCode = 200 =>
            /\ DOMAIN ret.body = {"message", "summary", "s3_locations"}
            /\ ret.body.summary = summary
            /\ DOMAIN ret.body.s3_locations = {"results_s3_uri", "summary_s3_uri"}
        /\ ret.statusCode = 500 => DOMAIN ret.body = {"error"}

\* C6 witness: every case was evaluated without an error result, the first
\* write failed and the handler returned 500
C6_Witness ==
    /\ pc = "returned"
    /\ ret.statusCode = 500
    /\ Len(results) = Len(Cases)
    /\ \A k \in DOMAIN results : results[k].status # "error"
    /\ s3_objects = <<>>

\* the timestamp tokens the clock can yield
Tokens == { ToString(s) : s \in 0..MaxClock }

\* C7: a completed upload_to_s3 has written two objects to one bucket, under
\* {prefix}/results-{T}.json and {prefix}/summary-{T}.json for one token T,
\* and the two returned URIs name these two keys.
C7_SharedTimestamp ==
    (pc = "returned" /\ ret.statusCode = 200) =>
        /\ Len(s3_objects) = 2
        /\ s3_objects[1].Bucket = event.s3_bucket
        /\ s3_objects[2].Bucket = event.s3_bucket
        /\ \E T \in Tokens :
            /\ s3_objects[1].Key = s3_prefix \o "/results-" \o T \o ".json"
            /\ s3_objects[2].Key = s3_prefix \o "/summary-" \o T \o ".json"
        /\ ret.body.s3_locations.results_s3_uri =
              "s3://" \o s3_objects[1].Bucket \o "/" \o s3_objects[1].Key
        /\ ret.body.s3_locations.summary_s3_uri =
              "s3://" \o s3_objects[2].Bucket \o "/" \o s3_objects[2].Key
        /\ s3_prefix = (IF "s3_prefix" \in DOMAIN event THEN event.s3_prefix ELSE "agent-evaluations")

\* C7 witness: the upload completed and the clock had passed into the next
\* second after the timestamp was read
C7_Witness ==
    /\ pc = "returned"
    /\ ret.statusCode = 200
    /\ Len(s3_objects) = 2
    /\ timestamp = "0"
    /\ clock \div TicksPerSecond >= 1

\* C8: the agent is invoked once per case, in the order of the cases, each
\* invocation's result recorded before the next invocation; no invocation is
\* repeated after a fault; each invocation carries its case's query and the
\* run's session_id.
C8_OneInvocationPerCase ==
    /\ Len(invocations) <= Len(Cases)
    /\ Len(outcomes) = Len(invocations)
    /\ RunnerDone => Len(invocations) = Len(Cases)
    /\ Len(invocations) = Len(results) + (IF pc = "record" THEN 1 ELSE 0)
    /\ \A k \in DOMAIN invocations :
        /\ invocations[k].Payload.prompt = Cases[k].query
        /\ invocations[k].Payload.user.session_id = session_id
        /\ invocations[k].FunctionName = event.agent_lambda_name
    /\ invocations # <<>> /\ "session_id" \in DOMAIN event => session_id = event.session_id

\* C8 witness: the run is over, the second and the last invocation faulted
C8_Witness ==
    /\ pc = "summarize"
    /\ Len(invocations) = Len(Cases)
    /\ outcomes[2].kind = "raise"
    /\ outcomes[Len(Cases)].kind = "raise"
    /\ "session_id" \notin DOMAIN event

\* C9: the stages run in the order runner, aggregator, publisher: an object
\* is written only when every case has a result and no invocation follows;
\* the summary written and returned is generate_summary of the complete
\* result list; the results object is written before the summary object.
C9_StageOrder ==
    /\ pc \in {"entry", "invoke", "record", "summarize"} => s3_objects = <<>> /\ summary = NoValue
    /\ pc \in {"entry", "invoke", "record"} => Len(results) < Len(Cases)
    /\ s3_objects # <<>> =>
        /\ Len(results) = Len(Cases)
        /\ Len(invocations) = Len(Cases)
        /\ pc \in {"put_summary", "returned"}
    /\ pc \in {"upload", "put_results", "put_summary"} =>
        /\ Len(results) = Len(Cases)
        /\ summary = generate_summary(results)
    /\ Len(s3_objects) <= 2
    /\ Len(s3_objects) >= 1 =>
        /\ s3_objects[1].Key = results_key(s3_prefix, timestamp)
        /\ s3_objects[1].Body = results
    /\ Len(s3_objects) = 2 =>
        /\ s3_objects[2].Key = summary_key(s3_prefix, timestamp)
        /\ s3_objects[2].Body = generate_summary(results)
    /\ pc = "returned" /\ ret.statusCode = 200 =>
        /\ Len(s3_objects) = 2
        /\ ret.body.summary = generate_summary(results)

\* C9 witness: both objects are written after a run with a passed, a failed
\* and an error result
C9_Witness ==
    /\ pc = "returned"
    /\ ret.statusCode = 200
    /\ Len(s3_objects) = 2
    /\ s3_objects[2].Body.passed >= 1
    /\ s3_objects[2].Body.failed >= 1
    /\ s3_objects[2].Body.errors >= 1
    /\ s3_objects[1].Body = results

\* C10: publishing is not atomic: after a failed results write nothing is
\* stored and the summary write is not attempted; after a failed summary
\* write the handler returns 500 and the results object stays stored without
\* a summary object; a 200 response implies both objects are stored.
C10_PublishNotAtomic ==
    /\ \A k \in DOMAIN s3_objects :
        s3_objects[k].Key = summary_key(s3_prefix, timestamp) =>
            k = 2 /\ s3_objects[1].Key = results_key(s3_prefix, timestamp)
    /\ pc = "returned" /\ ret.statusCode = 500 =>
        /\ Len(s3_objects) \in {0, 1}
        /\ ret.body.error = "put_object failed: results" <=> s3_objects = <<>>
        /\ ret.body.error = "put_object failed: summary" <=>
              (Len(s3_objects) = 1 /\ s3_objects[1].Key = results_key(s3_prefix, timestamp))
    /\ pc = "returned" /\ ret.statusCode = 200 =>
        /\ Len(s3_objects) = 2
        /\ s3_objects[1].Key = results_key(s3_prefix, timestamp)
        /\ s3_objects[2].Key = summary_key(s3_prefix, timestamp)
    /\ pc = "put_summary" => Len(s3_objects) = 1

\* C10 witness: the handler returned 500 and the results object is stored
\* without a summary object
C10_Witness ==
    /\ pc = "returned"
    /\ ret.statusCode = 500
    /\ Len(s3_objects) = 1
    /\ s3_objects[1].Key = results_key(s3_prefix, timestamp)
    /\ ret.body.error = "put_object failed: summary"

====
